---- MODULE Spec2Model ----
(***************************************************************************)
(* A model of seo_predictor_app.py: the four cached Search Console fetch   *)
(* helpers, the Prophet forecast wrapper, the keyword-in-title heuristic   *)
(* and the four dashboard panels (one action per button handler).          *)
(*                                                                         *)
(* Strings the heuristic reads are sequences of one-character strings.     *)
(* Calendar dates are day numbers, the clock counts seconds.               *)
(***************************************************************************)
EXTENDS Integers, Sequences, FiniteSets, TLC

VARIABLES
    now,        \* the wall clock, in seconds
    svc,        \* st.cache_data entry of gsc_service()
    cache,      \* st.cache_data entries of the four fetch helpers, by call key
    lastCall,   \* history: when a call with this key last returned a payload
    clicks,     \* number of button clicks handled so far
    run         \* what the last handled click did and showed

vars == <<now, svc, cache, lastCall, clicks, run>>

\* ---------------------------------------------------------------- config

MAX_HISTORY == 90
TTL == 3600
Tab1Horizon == 15
Tab3Horizon == 30
Tab4Horizon == 4
Tab1QueryDays == 30
Tab1QueryLimit == 5

\* ---------------------------------------------------------------- bounds

MaxTicks == 2
MaxClicks == 3
MaxTitleLen == 3
MaxKwLen == 2
MaxHorizon == 4
MaxSpan == 4

\* ------------------------------------------------------------------ time

DaySeconds == 24 * 3600
\* The clock advances in steps of half a TTL.
Step == TTL \div 2
\* The run starts half an hour before midnight.
StartTime == (MAX_HISTORY + 1) * DaySeconds - Step
EndTime == StartTime + MaxTicks * Step
Today(t) == t \div DaySeconds

\* --------------------------------------------------------------- strings

Whitespace == {" "}
\* "sz" stands for the one character U+00DF (LATIN SMALL LETTER SHARP S): it is
\* its own lowercase form and its uppercase form is the two characters "SS".
Eszett == "sz"
Alphabet == {"s", "S", Eszett, " "}

RECURSIVE StringsUpTo(_)
StringsUpTo(n) ==
    IF n = 0 THEN {<<>>}
    ELSE LET shorter == StringsUpTo(n - 1)
         IN  shorter \cup {Append(s, c) : s \in {t \in shorter : Len(t) = n - 1}, c \in Alphabet}

\* str.lower(), character by character.
LowerChar(c) ==
    IF c = "S" THEN "s" ELSE c

lower(s) == [i \in 1..Len(s) |-> LowerChar(s[i])]

\* str.strip(): leading and trailing whitespace removed.
strip(s) ==
    LET keep == {i \in 1..Len(s) : s[i] \notin Whitespace}
    IN  IF keep = {} THEN <<>>
        ELSE LET first == CHOOSE i \in keep : \A j \in keep : i <= j
                 last  == CHOOSE i \in keep : \A j \in keep : j <= i
             IN  SubSeq(s, first, last)

\* Python's `sub in s` on strings.
Contains(sub, s) ==
    \E i \in 0..(Len(s) - Len(sub)) : SubSeq(s, i + 1, i + Len(sub)) = sub

\* The heuristic as it would be without .lower().
keyword_in_title_nolower(title, kw) == Contains(strip(kw), strip(title))

\* kw.strip().lower() in title.strip().lower()
keyword_in_title(title, kw) == Contains(lower(strip(kw)), lower(strip(title)))

ConfidenceLow == 50
ConfidenceHigh == 80
Threshold == 70

Confidence(title, keyword) ==
    IF keyword_in_title(title, keyword) THEN ConfidenceHigh ELSE ConfidenceLow

\* The label as it would be with the threshold at the low confidence.
LabelAtLeast(conf) ==
    IF conf >= ConfidenceLow THEN "Optimizable" ELSE "Not Optimizable"

Label(conf) ==
    IF conf > Threshold THEN "Optimizable" ELSE "Not Optimizable"

\* ------------------------------------------------------------ data frames

TsColumns == <<"ds", "y">>
QueryColumns == <<"keyword", "clicks", "impressions">>
NoDf == [columns |-> <<>>, rows |-> <<>>]

\* DataFrame.empty
Empty(df) == Len(df.columns) = 0 \/ Len(df.rows) = 0

HasColumn(df, name) == \E i \in 1..Len(df.columns) : df.columns[i] = name

\* DataFrame.sort_values("ds")
SortByDs(rows) ==
    LET n == Len(rows)
        rank(i) == 1 + Cardinality({j \in 1..n : rows[j].ds < rows[i].ds
                                                 \/ (rows[j].ds = rows[i].ds /\ j < i)})
    IN  [p \in 1..n |-> rows[CHOOSE i \in 1..n : rank(i) = p]]

\* lines 32-35, 76-79, 101-104: the (ds, y) frame of a date query, sorted by ds.
TsFrame(rows) ==
    [columns |-> TsColumns,
     rows |-> SortByDs([i \in 1..Len(rows) |-> [ds |-> rows[i].keys, y |-> rows[i].clicks]])]

\* lines 50-54: pd.DataFrame of a list of dicts; an empty list gives no columns.
QueryFrame(rows) ==
    [columns |-> IF Len(rows) = 0 THEN <<>> ELSE QueryColumns,
     rows |-> [i \in 1..Len(rows) |->
                 [keyword |-> rows[i].keys, clicks |-> rows[i].clicks,
                  impressions |-> rows[i].impressions]]]

\* ------------------------------------------------------------ call keys

SiteFn == "fetch_site_data"
QueriesFn == "fetch_queries_df"
PageFn == "fetch_page_data"
KeywordFn == "fetch_keyword_data"

NoKey == [fn |-> "", days |-> 0, limit |-> 0, expr |-> ""]
SiteKey == [fn |-> SiteFn, days |-> MAX_HISTORY, limit |-> 0, expr |-> ""]
QueriesKey(days, limit) == [fn |-> QueriesFn, days |-> days, limit |-> limit, expr |-> ""]
PageKey(path) == [fn |-> PageFn, days |-> MAX_HISTORY, limit |-> 0, expr |-> path]
KeywordKey(kw) == [fn |-> KeywordFn, days |-> MAX_HISTORY, limit |-> 0, expr |-> kw]

\* What the panels' inputs range over. Tab 2 is asked for its default history
\* (30 days) and its smallest ranking (5 rows), the arguments Tab 1 passes too.
HistoryDays == {Tab1QueryDays}
TopNs == {Tab1QueryLimit}
Paths == {"/blog"}
ForecastKeywords == {"seo"}
WordCounts == {800, 5000}
Titles == {<<" ", "S">>}
Keywords == {<<"s", " ">>, <<Eszett>>}

Keys ==
    {SiteKey} \cup {QueriesKey(d, n) : d \in HistoryDays, n \in TopNs}
    \cup {PageKey(p) : p \in Paths} \cup {KeywordKey(k) : k \in ForecastKeywords}

\* ------------------------------------------------------- the remote source

NoBody == [startDate |-> 0, endDate |-> 0, dimension |-> "", filter |-> "", rowLimit |-> 0]

RowLimitAll == 10000

BodyOn(key, day) ==
    [startDate |-> day - key.days,
     endDate   |-> day,
     dimension |-> IF key.fn = QueriesFn THEN "query" ELSE "date",
     filter    |-> IF key.fn = PageFn THEN "page" ELSE IF key.fn = KeywordFn THEN "query" ELSE "",
     rowLimit  |-> IF key.fn = QueriesFn THEN key.limit ELSE RowLimitAll]

\* The request a call of the helper builds: today is read when the body runs.
Body(key) == BodyOn(key, Today(now))

\* The rows the source may report for a date query: none, one, or the three
\* most recent days of the range, newest first.
SeriesLengths == {0, 1, 3}

SeriesRows(body) ==
    {[i \in 1..n |-> [keys |-> body.endDate - (i - 1), clicks |-> i, impressions |-> 10 * i]]
        : n \in SeriesLengths}

\* The rows it may report for a query listing.
QueryRows(body) ==
    {<<>>,
     <<[keys |-> "seo", clicks |-> 10, impressions |-> 0]>>,
     <<[keys |-> "seo", clicks |-> 10, impressions |-> 20],
       [keys |-> "tips", clicks |-> 0, impressions |-> 0]>>}

\* What execute() may do when asked: raise (a transport failure) or return rows.
Responses(key) ==
    {[failed |-> TRUE, rows |-> <<>>]}
    \cup {[failed |-> FALSE, rows |-> r] :
            r \in IF key.fn = QueriesFn THEN QueryRows(Body(key)) ELSE SeriesRows(Body(key))}

NotAsked == [failed |-> FALSE, rows |-> <<>>]

\* --------------------------------------------------------- st.cache_data

NoEntry == [present |-> FALSE, fetched_at |-> 0, body |-> NoBody, df |-> NoDf]
NoSvc == [present |-> FALSE, fetched_at |-> 0]
NoPrev == [present |-> FALSE, fetched_at |-> 0]

\* The ttl test as it would be if an entry aged exactly ttl were still served.
FreshAtOrAfter(entry) == entry.present /\ now - entry.fetched_at <= TTL

\* An entry is served while it is younger than the ttl.
Fresh(entry) == entry.present /\ now - entry.fetched_at < TTL

\* gsc_service(): the cached handle, or the credentials file is read and the
\* handle built again, which raises when the file is missing or rejected.
gsc_service(authOk) ==
    IF Fresh(svc) THEN [exc |-> "", svc |-> svc]
    ELSE IF authOk THEN [exc |-> "", svc |-> [present |-> TRUE, fetched_at |-> now]]
    ELSE [exc |-> "FileNotFoundError", svc |-> svc]

\* What the outside world may answer to one call: whether the credentials file
\* is good (read only when the handle is rebuilt) and what the source reports
\* (asked only when the cached entry is not served).
AuthAnswers == IF Fresh(svc) THEN {TRUE} ELSE BOOLEAN

Answers(key) == IF Fresh(cache[key]) THEN {NotAsked} ELSE Responses(key)

FrameOf(key, rows) ==
    IF key.fn = QueriesFn THEN QueryFrame(rows) ELSE TsFrame(rows)

\* What a call found in the cache under its key, for the record of the run.
Seen(entry) == [present |-> entry.present, fetched_at |-> entry.fetched_at]

\* One call of a cached fetch helper with the arguments in key: the entry if it
\* is fresh, else the helper's body, whose result is stored when it returns.
CallFetch(key, authOk, resp) ==
    LET entry == cache[key] IN
    IF Fresh(entry)
    THEN [hit |-> TRUE, requested |-> FALSE, exc |-> "", body |-> entry.body,
          df |-> entry.df, prev |-> Seen(entry), prevCallAt |-> lastCall[key],
          cache |-> cache, svc |-> svc,
          lastCall |-> [lastCall EXCEPT ![key] = now]]
    ELSE
        LET g == gsc_service(authOk) IN
        IF g.exc # ""
        THEN [hit |-> FALSE, requested |-> FALSE, exc |-> g.exc, body |-> NoBody,
              df |-> NoDf, prev |-> Seen(entry), prevCallAt |-> lastCall[key],
              cache |-> cache, svc |-> g.svc, lastCall |-> lastCall]
        ELSE IF resp.failed
        THEN [hit |-> FALSE, requested |-> TRUE, exc |-> "HttpError", body |-> Body(key),
              df |-> NoDf, prev |-> Seen(entry), prevCallAt |-> lastCall[key],
              cache |-> cache, svc |-> g.svc, lastCall |-> lastCall]
        ELSE
            LET df == FrameOf(key, resp.rows) IN
            [hit |-> FALSE, requested |-> TRUE, exc |-> "", body |-> Body(key),
             df |-> df, prev |-> Seen(entry), prevCallAt |-> lastCall[key],
             cache |-> [cache EXCEPT ![key] =
                          [present |-> TRUE, fetched_at |-> now, body |-> Body(key), df |-> df]],
             svc |-> g.svc,
             lastCall |-> [lastCall EXCEPT ![key] = now]]

fetch_site_data(authOk, resp) == CallFetch(SiteKey, authOk, resp)

fetch_queries_df(days, limit, authOk, resp) == CallFetch(QueriesKey(days, limit), authOk, resp)

fetch_page_data(path, authOk, resp) == CallFetch(PageKey(path), authOk, resp)

fetch_keyword_data(keyword, authOk, resp) == CallFetch(KeywordKey(keyword), authOk, resp)

\* ------------------------------------------------------------ forecasting

MaxDate(dates) ==
    CHOOSE d \in {dates[i] : i \in 1..Len(dates)} : \A i \in 1..Len(dates) : dates[i] <= d

\* The future frame as it would be one day short.
MakeFutureDataframeShort(dates, periods) ==
    LET last == MaxDate(dates)
    IN  dates \o [i \in 1..(periods - 1) |-> last + i]

\* Prophet.make_future_dataframe(periods): the history's dates, then the
\* periods days that follow the last of them.
MakeFutureDataframe(dates, periods) ==
    LET last == MaxDate(dates)
    IN  dates \o [i \in 1..periods |-> last + i]

MinFitRows == 2

\* forecast(df, days_ahead): m.fit raises on fewer than two rows.
forecast(df, days_ahead) ==
    IF Len(df.rows) < MinFitRows
    THEN [exc |-> "ValueError", fc |-> <<>>]
    ELSE [exc |-> "",
          fc  |-> MakeFutureDataframe([i \in 1..Len(df.rows) |-> df.rows[i].ds], days_ahead)]

\* ---------------------------------------------------------------- metrics

NoMetric == [kind |-> "none", value |-> 0]

RECURSIVE SumClicks(_)
SumClicks(rows) ==
    IF Len(rows) = 0 THEN 0 ELSE rows[1].clicks + SumClicks(Tail(rows))

RECURSIVE RatioSum(_)
\* The sum of clicks/impressions over rows with impressions > 0, as [num, den].
RatioSum(rows) ==
    IF Len(rows) = 0 THEN [num |-> 0, den |-> 1]
    ELSE LET rest == RatioSum(Tail(rows))
             r == rows[1]
         IN  [num |-> r.clicks * rest.den + rest.num * r.impressions,
              den |-> r.impressions * rest.den]

\* round((clicks / impressions).mean() * 100, 2) on float64 columns, in
\* hundredths of a percent: x/0 is inf for x > 0 and NaN for x = 0, and mean()
\* skips NaN.
AvgCtr(rows) ==
    LET finite == SelectSeq(rows, LAMBDA r : r.impressions > 0)
        s == RatioSum(finite)
        d == s.den * Len(finite)
    IN  IF \E i \in 1..Len(rows) : rows[i].impressions = 0 /\ rows[i].clicks > 0
        THEN [kind |-> "inf", value |-> 0]
        ELSE IF Len(finite) = 0 THEN [kind |-> "nan", value |-> 0]
        ELSE [kind |-> "num", value |-> (2 * 10000 * s.num + d) \div (2 * d)]

\* ----------------------------------------------------------------- panels

\* st.tabs([...]): the four panels, in the order the script draws them.
AllTabs == 4
NoTab == ""
TabIndex(panel) ==
    CASE panel = "Tab1" -> 1 [] panel = "Tab2" -> 2 [] panel = "Tab3" -> 3
      [] panel = "Tab4" -> 4 [] OTHER -> 0

\* What one handled click did. Fields a panel does not set keep these values.
BlankRun ==
    [panel |-> NoTab, at |-> 0,
     title |-> <<>>, keyword |-> <<>>,
     conf |-> 0, label |-> "",
     called |-> FALSE, key |-> NoKey, hit |-> FALSE, requested |-> FALSE,
     body |-> NoBody, df |-> NoDf, prev |-> NoPrev, prevCallAt |-> -1, fetchExc |-> "",
     warning |-> "", exc |-> "", listed |-> <<>>,
     fit |-> FALSE, horizon |-> 0, fc |-> <<>>,
     totalClicks |-> NoMetric, avgCtr |-> NoMetric,
     rendered |-> AllTabs]

\* The fetch part of a run: the call, and the tabs drawn when it raised.
WithFetch(base, key, f) ==
    [base EXCEPT !.called = TRUE, !.key = key, !.hit = f.hit, !.requested = f.requested,
                 !.body = f.body, !.df = f.df, !.prev = f.prev, !.prevCallAt = f.prevCallAt,
                 !.fetchExc = f.exc, !.exc = f.exc,
                 !.rendered = IF f.exc # "" THEN TabIndex(base.panel) ELSE AllTabs]

\* The forecast part of a panel: fit, predict and the chart.
WithForecast(r, df, days_ahead) ==
    LET fr == forecast(df, days_ahead) IN
    [r EXCEPT !.fit = TRUE, !.horizon = days_ahead, !.fc = fr.fc, !.exc = fr.exc,
              !.rendered = IF fr.exc # "" THEN TabIndex(r.panel) ELSE AllTabs]

\* A date-series panel after its fetch: the warning, or the chart and forecast.
SeriesPanel(r, warning, days_ahead) ==
    IF r.exc # "" THEN r
    ELSE IF Empty(r.df) THEN [r EXCEPT !.warning = warning]
    ELSE WithForecast(r, r.df, days_ahead)

Tab1Key(conf) ==
    IF conf > Threshold THEN SiteKey ELSE QueriesKey(Tab1QueryDays, Tab1QueryLimit)

\* for kw in df_q["keyword"]: st.write(...)
AlternativeKeywords(r) ==
    IF r.exc # "" THEN r
    ELSE IF ~HasColumn(r.df, "keyword")
    THEN [r EXCEPT !.exc = "KeyError", !.rendered = TabIndex(r.panel)]
    ELSE [r EXCEPT !.listed = [i \in 1..Len(r.df.rows) |-> r.df.rows[i].keyword]]

\* Tab 1 as it would be if a long text raised the confidence.
Tab1EffectWordy(title, keyword, word_count, authOk, resp) ==
    LET conf  == IF word_count > 1000 THEN ConfidenceHigh ELSE Confidence(title, keyword)
        key   == Tab1Key(conf)
        f     == IF conf > Threshold
                 THEN fetch_site_data(authOk, resp)
                 ELSE fetch_queries_df(Tab1QueryDays, Tab1QueryLimit, authOk, resp)
        base  == [BlankRun EXCEPT !.panel = "Tab1", !.at = now, !.title = title,
                                  !.keyword = keyword,
                                  !.conf = conf, !.label = Label(conf)]
        r     == WithFetch(base, key, f)
    IN  [cache |-> f.cache, svc |-> f.svc, lastCall |-> f.lastCall,
         run |-> IF conf > Threshold
                 THEN SeriesPanel(r, "No GSC data for your site.", Tab1Horizon)
                 ELSE AlternativeKeywords(r)]

\* Tab 1, "Run Prediction & Forecast".
Tab1Effect(title, keyword, word_count, authOk, resp) ==
    LET conf  == Confidence(title, keyword)
        key   == Tab1Key(conf)
        f     == IF conf > Threshold
                 THEN fetch_site_data(authOk, resp)
                 ELSE fetch_queries_df(Tab1QueryDays, Tab1QueryLimit, authOk, resp)
        base  == [BlankRun EXCEPT !.panel = "Tab1", !.at = now, !.title = title,
                                  !.keyword = keyword,
                                  !.conf = conf, !.label = Label(conf)]
        r     == WithFetch(base, key, f)
    IN  [cache |-> f.cache, svc |-> f.svc, lastCall |-> f.lastCall,
         run |-> IF conf > Threshold
                 THEN SeriesPanel(r, "No GSC data for your site.", Tab1Horizon)
                 ELSE AlternativeKeywords(r)]

\* Tab 2, "Load Ranking".
Tab2Effect(d, n, authOk, resp) ==
    LET key  == QueriesKey(d, n)
        f    == fetch_queries_df(d, n, authOk, resp)
        base == [BlankRun EXCEPT !.panel = "Tab2", !.at = now]
        r    == WithFetch(base, key, f)
    IN  [cache |-> f.cache, svc |-> f.svc, lastCall |-> f.lastCall,
         run |-> IF r.exc # "" THEN r
                 ELSE IF Empty(r.df) THEN [r EXCEPT !.warning = "No query data."]
                 ELSE [r EXCEPT !.totalClicks = [kind |-> "num", value |-> SumClicks(r.df.rows)],
                                !.avgCtr = AvgCtr(r.df.rows)]]

\* Tab 3, "Fetch & Forecast Page".
Tab3Effect(path, authOk, resp) ==
    LET key  == PageKey(path)
        f    == fetch_page_data(path, authOk, resp)
        base == [BlankRun EXCEPT !.panel = "Tab3", !.at = now]
    IN  [cache |-> f.cache, svc |-> f.svc, lastCall |-> f.lastCall,
         run |-> SeriesPanel(WithFetch(base, key, f), "No data for that page.", Tab3Horizon)]

\* Tab 4, "Fetch & Forecast Keyword".
Tab4Effect(kw, authOk, resp) ==
    LET key  == KeywordKey(kw)
        f    == fetch_keyword_data(kw, authOk, resp)
        base == [BlankRun EXCEPT !.panel = "Tab4", !.at = now]
    IN  [cache |-> f.cache, svc |-> f.svc, lastCall |-> f.lastCall,
         run |-> SeriesPanel(WithFetch(base, key, f), "No data for that keyword.", Tab4Horizon)]

Apply(e) ==
    /\ clicks < MaxClicks
    /\ clicks' = clicks + 1
    /\ cache' = e.cache
    /\ svc' = e.svc
    /\ lastCall' = e.lastCall
    /\ run' = e.run
    /\ now' = now

Tab1 ==
    \E title \in Titles, keyword \in Keywords, word_count \in WordCounts, authOk \in AuthAnswers :
        \E resp \in Answers(Tab1Key(Confidence(title, keyword))) :
            Apply(Tab1Effect(title, keyword, word_count, authOk, resp))

Tab2 ==
    \E d \in HistoryDays, n \in TopNs, authOk \in AuthAnswers :
        \E resp \in Answers(QueriesKey(d, n)) :
            Apply(Tab2Effect(d, n, authOk, resp))

Tab3 ==
    \E path \in Paths, authOk \in AuthAnswers :
        \E resp \in Answers(PageKey(path)) :
            Apply(Tab3Effect(path, authOk, resp))

Tab4 ==
    \E kw \in ForecastKeywords, authOk \in AuthAnswers :
        \E resp \in Answers(KeywordKey(kw)) :
            Apply(Tab4Effect(kw, authOk, resp))

\* Time passes between clicks.
Tick ==
    /\ now + Step <= EndTime
    /\ now' = now + Step
    /\ UNCHANGED <<svc, cache, lastCall, clicks, run>>

Init ==
    /\ now = StartTime
    /\ svc = NoSvc
    /\ cache = [k \in Keys |-> NoEntry]
    /\ lastCall = [k \in Keys |-> -1]
    /\ clicks = 0
    /\ run = BlankRun

Next == Tab1 \/ Tab2 \/ Tab3 \/ Tab4 \/ Tick

\* The dashboard: any sequence of button clicks, with time passing in between.
Spec == Init /\ [][Next]_vars

\* Tab 1 alone.
NextTab1 == Tab1 \/ Tick

SpecTab1 == Init /\ [][NextTab1]_vars

\* ----------------------------------------------- the heuristic on its own

ScoreTab == "score"
ForecastTab == "forecast"

TitleInputs == StringsUpTo(MaxTitleLen)
KeywordInputs == StringsUpTo(MaxKwLen)

\* A title and a keyword typed into the two text inputs.
InitScore ==
    /\ now = StartTime
    /\ svc = NoSvc
    /\ cache = [k \in Keys |-> NoEntry]
    /\ lastCall = [k \in Keys |-> -1]
    /\ clicks = 0
    /\ \E title \in TitleInputs, keyword \in KeywordInputs :
          run = [BlankRun EXCEPT !.title = title, !.keyword = keyword]

\* Lines 132-133 applied to them.
ScoreCall ==
    /\ run.panel = NoTab
    /\ LET conf == Confidence(run.title, run.keyword) IN
       run' = [run EXCEPT !.panel = ScoreTab, !.conf = conf, !.label = Label(conf)]
    /\ UNCHANGED <<now, svc, cache, lastCall, clicks>>

SpecScore == InitScore /\ [][ScoreCall]_vars

\* ------------------------------------------------ forecast on its own

\* Histories as the fetch helpers return them: sorted, one row per date, at most
\* MaxSpan + 1 dates.
HistoryInputs ==
    LET days == (Today(StartTime) - MaxSpan)..Today(StartTime) IN
    {[columns |-> TsColumns,
      rows |-> SortByDs([i \in 1..Cardinality(D) |->
                  [ds |-> CHOOSE d \in D : Cardinality({e \in D : e > d}) = i - 1, y |-> i]])]
        : D \in SUBSET days}

\* A history and a horizon to call forecast() with.
InitForecast ==
    /\ now = StartTime
    /\ svc = NoSvc
    /\ cache = [k \in Keys |-> NoEntry]
    /\ lastCall = [k \in Keys |-> -1]
    /\ clicks = 0
    /\ \E df \in HistoryInputs, days_ahead \in 1..MaxHorizon :
          run = [BlankRun EXCEPT !.df = df, !.horizon = days_ahead]

\* forecast(df, days_ahead) applied to them.
ForecastCall ==
    /\ run.panel = NoTab
    /\ clicks = 0
    /\ run' = WithForecast([run EXCEPT !.panel = ForecastTab], run.df, run.horizon)
    /\ UNCHANGED <<now, svc, cache, lastCall, clicks>>

\* forecast() called directly, and by the three panels that use it.
NextForecast == ForecastCall \/ Tab1 \/ Tab3 \/ Tab4

SpecForecast == InitForecast /\ [][NextForecast]_vars

\* ------------------------------------------------------------------ claims

Age(r) == r.at - r.prev.fetched_at

\* C1, as stated: a call whose arguments equal those of an earlier call made
\* less than the TTL ago is served from the cache without a remote request, and
\* a call made once the TTL has elapsed since the payload was fetched issues a
\* new remote request.
C1_ServedWithinTtlOfEarlierCall ==
    (run.called /\ run.fetchExc = "") =>
        /\ (run.prevCallAt >= 0 /\ run.at - run.prevCallAt < TTL) =>
              run.hit /\ ~run.requested
        /\ (run.prev.present /\ Age(run) >= TTL) => run.requested

\* C1, amended: a call whose arguments equal those of an earlier call that
\* fetched its payload from the source less than the TTL ago returns that
\* payload and issues no remote request; a call made once the TTL has elapsed
\* since the payload was fetched never serves it: the helper's body runs again
\* and issues a new remote request, unless gsc_service() raises first.
C1_ServedWithinTtlOfFetch ==
    run.called =>
        /\ (run.prev.present /\ Age(run) < TTL) =>
              /\ run.hit /\ ~run.requested /\ run.fetchExc = ""
              /\ cache[run.key].present
              /\ cache[run.key].fetched_at = run.prev.fetched_at
              /\ run.df = cache[run.key].df
        /\ (~run.prev.present \/ Age(run) >= TTL) =>
              /\ ~run.hit
              /\ run.fetchExc = "" =>
                    run.requested /\ cache[run.key].fetched_at = run.at
                    /\ run.df = cache[run.key].df
              /\ run.fetchExc # "" => run.requested = (run.fetchExc = "HttpError")

\* C1 witness: a payload fetched half a TTL ago is served again.
C1_Witness ==
    run.called /\ run.hit /\ run.prev.present /\ Age(run) = Step /\ run.df = cache[run.key].df

\* Every string got from s by changing the case of some of the letters in the
\* set changed.
RECURSIVE CaseChanges(_, _)
CaseChanges(s, changed) ==
    IF Len(s) = 0 THEN {<<>>}
    ELSE LET c == Head(s)
             other == IF c = "s" THEN <<"S">>
                      ELSE IF c = "S" THEN <<"s">>
                      ELSE IF c = Eszett THEN <<"S", "S">>
                      ELSE <<c>>
         IN  {h \o t : h \in (IF c \in changed THEN {<<c>>, other} ELSE {<<c>>}),
                       t \in CaseChanges(Tail(s), changed)}

\* s with whitespace added in front, behind, or both.
Padded(s) == {s, <<" ">> \o s, s \o <<" ">>, <<" ">> \o s \o <<" ">>}

AnyLetter == Alphabet
AsciiLetter == {"s", "S"}

Rewritings(s, changed) == UNION {Padded(t) : t \in CaseChanges(s, changed)}

ScoreRule(r) ==
    /\ r.conf \in {50, 80}
    /\ r.conf = 80 <=> Contains(strip(lower(r.keyword)), strip(lower(r.title)))
    /\ Len(r.keyword) = 0 => r.conf = 80

\* C2, as stated: the score is 80 exactly when the lowercased, stripped keyword
\* is a substring of the lowercased, stripped title, and 50 otherwise; it does
\* not change when the case of letters is changed or whitespace is added at the
\* ends of either argument; it is 80 for the empty keyword.
C2_ScoreIgnoresAnyCase ==
    run.panel = ScoreTab =>
        /\ ScoreRule(run)
        /\ \A t \in Rewritings(run.title, AnyLetter), k \in Rewritings(run.keyword, AnyLetter) :
              Confidence(t, k) = run.conf

\* C2, amended: as above, for changes of the case of ASCII letters (a letter
\* such as U+00DF, whose uppercase form SS lowercases to ss, is compared by its
\* lowercase form only).
C2_ScoreIgnoresAsciiCase ==
    run.panel = ScoreTab =>
        /\ ScoreRule(run)
        /\ \A t \in Rewritings(run.title, AsciiLetter), k \in Rewritings(run.keyword, AsciiLetter) :
              Confidence(t, k) = run.conf

\* C2 witness: a match that needs both the lowercasing and the stripping.
C2_Witness ==
    /\ run.panel = ScoreTab /\ run.conf = 80
    /\ run.title = <<" ", "S", "s">> /\ run.keyword = <<"s", " ">>

\* C3: Tab 1 shows a confidence of 50 or 80, never 70, and the label
\* "Optimizable" exactly when the confidence is above 70.
C3_ConfidenceAndLabel ==
    run.panel = "Tab1" =>
        /\ run.conf \in {50, 80}
        /\ run.conf # 70
        /\ run.label = "Optimizable" <=> run.conf > 70
        /\ run.conf = 80 => run.label = "Optimizable"
        /\ run.conf = 50 => run.label = "Not Optimizable"

\* C3 witness: a Tab 1 run whose keyword is not in the title.
C3_Witness == run.panel = "Tab1" /\ run.conf = 50 /\ run.label = "Not Optimizable"

\* C4: every failure raised while a panel runs is caught in the panel and shown
\* as a warning; none ends the script run.
C4_ErrorsCaughtAtPanel ==
    run.panel \in {"Tab1", "Tab2", "Tab3", "Tab4"} =>
        /\ run.exc = ""
        /\ run.rendered = AllTabs
        /\ run.fetchExc # "" => run.warning # ""

\* C5: when the source reports zero rows the fetch returns an empty table and
\* the panel that reads it completes without an error.
C5_EmptyResultIsNoError ==
    (run.called /\ run.fetchExc = "" /\ Len(run.df.rows) = 0) =>
        Empty(run.df) /\ run.exc = ""

\* C6: a series of fewer than two points is refused with a warning that halts
\* only the panel; a fetched series of exactly one row never reaches the fit.
C6_OneRowNeverFitted ==
    (run.panel \in {"Tab1", "Tab3", "Tab4"} /\ run.called /\ run.fetchExc = ""
        /\ HasColumn(run.df, "ds") /\ Len(run.df.rows) < 2) =>
        ~run.fit /\ run.warning # "" /\ run.exc = "" /\ run.rendered = AllTabs

\* C7: the payload a call returns, also from the cache, comes from a request
\* for today - d .. today, today being the day of the call, and d is at most
\* MAX_HISTORY.
C7_RangeEndsOnDayOfCall ==
    (run.called /\ run.fetchExc = "") =>
        /\ run.key.days <= 90
        /\ run.body.endDate = Today(run.at)
        /\ run.body.startDate = Today(run.at) - run.key.days

\* The mean with rows of zero impressions skipped, and with them counted as 0.
CtrSkippingZero(rows) ==
    LET finite == SelectSeq(rows, LAMBDA r : r.impressions > 0)
        s == RatioSum(finite)
        d == s.den * Len(finite)
    IN  IF Len(finite) = 0 THEN [kind |-> "nan", value |-> 0]
        ELSE [kind |-> "num", value |-> (2 * 10000 * s.num + d) \div (2 * d)]

CtrCountingZero(rows) ==
    LET finite == SelectSeq(rows, LAMBDA r : r.impressions > 0)
        s == RatioSum(finite)
        d == s.den * Len(rows)
    IN  [kind |-> "num", value |-> (2 * 10000 * s.num + d) \div (2 * d)]

\* C8: in Tab 2 a row with zero impressions raises nothing and enters "Avg CTR
\* (%)" as 0 or as undefined, never as another value.
C8_ZeroImpressionsCtr ==
    (run.panel = "Tab2" /\ run.fetchExc = ""
        /\ \E i \in 1..Len(run.df.rows) : run.df.rows[i].impressions = 0) =>
        /\ run.exc = ""
        /\ run.avgCtr \in {CtrSkippingZero(run.df.rows), CtrCountingZero(run.df.rows)}

LastHistoryDate(df) ==
    CHOOSE d \in {df.rows[i].ds : i \in 1..Len(df.rows)} :
        \A i \in 1..Len(df.rows) : df.rows[i].ds <= d

DistinctDates(df) == Cardinality({df.rows[i].ds : i \in 1..Len(df.rows)})

\* C9: for a history with at least two distinct dates and a horizon h, forecast
\* returns exactly h entries after the last history date, dated last+1 ..
\* last+h in order; Tab 1 asks for 15 days, Tab 3 for 30 and Tab 4 for 4.
C9_ForecastHorizon ==
    /\ (run.fit /\ DistinctDates(run.df) >= 2) =>
          LET last == LastHistoryDate(run.df)
              proj == SelectSeq(run.fc, LAMBDA d : d > last)
          IN  /\ run.exc = ""
              /\ run.horizon > 0
              /\ Len(proj) = run.horizon
              /\ \A i \in 1..Len(proj) : proj[i] = last + i
              /\ Len(run.fc) = Len(run.df.rows) + run.horizon
    /\ (run.fit /\ run.panel = "Tab1") => run.horizon = 15
    /\ (run.fit /\ run.panel = "Tab3") => run.horizon = 30
    /\ (run.fit /\ run.panel = "Tab4") => run.horizon = 4

\* C9 witness: Tab 3 forecast thirty days from a three-day history.
C9_Witness ==
    /\ run.panel = "Tab3" /\ run.fit /\ run.exc = ""
    /\ Len(run.df.rows) = 3 /\ Len(run.fc) = 33
    /\ run.fc[33] = LastHistoryDate(run.df) + 30

\* C10: in any state the dashboard can be in, Tab 1 does and shows the same
\* whatever the word count: same confidence, label, fetch call, cache and
\* forecast.
C10_WordCountIsDead ==
    \A title \in Titles, keyword \in Keywords, authOk \in AuthAnswers :
        \A resp \in Answers(Tab1Key(Confidence(title, keyword))) :
            \A w1, w2 \in WordCounts :
                Tab1Effect(title, keyword, w1, authOk, resp)
                    = Tab1Effect(title, keyword, w2, authOk, resp)

\* C10 witness: Tab 1 has run, fetched the site series and forecast it.
C10_Witness == run.panel = "Tab1" /\ run.conf = 80 /\ run.called /\ run.fit /\ clicks > 1
====
